---- MODULE Spec2Model ----
(***************************************************************************)
(* The Luxury Shopper chatbot: the session store, the welcome and chat     *)
(* handlers, the slot-filling processor and the response formatter.        *)
(*                                                                         *)
(* Two builds of the processor are modelled side by side; the variable     *)
(* variant says which one a behaviour runs:                                *)
(*   "main"      src/main.go                                               *)
(*   "rejecting" src/unnamed/part_000, lines 303-722 (helpers return a     *)
(*               flag, condition answers other than new/used/none are      *)
(*               rejected, missing payload fields are fatal)               *)
(*   "legacy"    src/unnamed/part_000, lines 1-301 (one function, the      *)
(*               sentinel is "all", the keyword "no" is special, two       *)
(*               results are requested, no zero-results message)           *)
(*                                                                         *)
(* A Go string is a sequence of atoms.  Strings the code inspects          *)
(* (utterances, acknowledgement, counts) have one atom per character;      *)
(* message literals the code only concatenates are a single atom.          *)
(***************************************************************************)
EXTENDS Integers, Sequences, FiniteSets, TLC

VARIABLES variant, alive, now, sessions, served, req, resp, calls, hist, before,
          flight

vars == <<variant, alive, now, sessions, served, req, resp, calls, hist, before,
          flight>>

(* ------------------------------ bounds -------------------------------- *)

\* the clock (unix seconds since the server started) reads 0..MaxTime
MaxTime == 0
\* chat requests that reach the processor in one behaviour
MaxTurns == 5

(* ------------------------------ strings ------------------------------- *)

UpperLetters == <<"A","B","C","D","E","F","G","H","I","J","K","L","M",
                  "N","O","P","Q","R","S","T","U","V","W","X","Y","Z">>
LowerLetters == <<"a","b","c","d","e","f","g","h","i","j","k","l","m",
                  "n","o","p","q","r","s","t","u","v","w","x","y","z">>

\* the lower-case letter of each upper-case letter
Fold == [c \in {UpperLetters[i] : i \in 1..26} |->
            LowerLetters[CHOOSE i \in 1..26 : UpperLetters[i] = c]]

LowerChar(c) == IF c \in DOMAIN Fold THEN Fold[c] ELSE c

ToLower(s) == [i \in 1..Len(s) |-> LowerChar(s[i])]

\* strings.EqualFold on the ASCII strings used here
EqualFold(a, b) == ToLower(a) = ToLower(b)

\* strings.Replace(s, " ", "%20", -1)
RECURSIVE ReplaceSpaces(_)
ReplaceSpaces(s) ==
    IF s = <<>> THEN <<>>
    ELSE (IF Head(s) = " " THEN <<"%", "2", "0">> ELSE <<Head(s)>>)
         \o ReplaceSpaces(Tail(s))

Digits == <<"0","1","2","3","4","5","6","7","8","9">>

IsDigit(c) == \E i \in 1..10 : Digits[i] = c

DigitVal(c) == (CHOOSE i \in 1..10 : Digits[i] = c) - 1

\* strconv.Itoa for n >= 0
RECURSIVE Itoa(_)
Itoa(n) ==
    IF n < 10 THEN <<Digits[n + 1]>>
    ELSE Itoa(n \div 10) \o <<Digits[(n % 10) + 1]>>

RECURSIVE DigitsValue(_, _)
DigitsValue(s, acc) ==
    IF s = <<>> THEN acc
    ELSE DigitsValue(Tail(s), acc * 10 + DigitVal(Head(s)))

\* strconv.Atoi: value and error; on error the value is 0
Atoi(s) ==
    LET body == IF s # <<>> /\ Head(s) \in {"+", "-"} THEN Tail(s) ELSE s
        ok   == body # <<>> /\ \A i \in 1..Len(body) : IsDigit(body[i])
    IN  IF ~ok THEN [val |-> 0, err |-> TRUE]
        ELSE [val |-> IF Head(s) = "-" THEN 0 - DigitsValue(body, 0)
                      ELSE DigitsValue(body, 0),
              err |-> FALSE]

(* ------------------------------ sessions ------------------------------ *)

\* Session{} : a map with no keys
EmptySession == [k \in {} |-> FALSE]

Has(s, k) == k \in DOMAIN s

Put(s, k, v) == [x \in (DOMAIN s) \cup {k} |-> IF x = k THEN v ELSE s[x]]

Delete(s, k) == [x \in (DOMAIN s) \ {k} |-> s[x]]

\* mutant: the reset removes the values and keeps the markers
ClearValuesOnly(s) ==
    [x \in (DOMAIN s) \cap {"conditionBool", "minPriceBool", "maxPriceBool"} |-> s[x]]

\* for k := range session { delete(session, k) }
ClearSession(s) == [x \in {} |-> FALSE]

\* hex(sha256(decimal(unix seconds))): one identifier per clock second
Uuid(t) == <<"sha256:">> \o Itoa(t)

(* ------------------------------ responses ----------------------------- *)

\* writeJSON(w, data): a 200 unless a status was written before
writeJSON(body) == [code |-> 200, type |-> "json", body |-> body]

\* http.Error(w, text, code)
httpError(text, code) == [code |-> code, type |-> "text", body |-> [text |-> text]]

NoResponse == [status |-> 0, writes |-> <<>>, aborted |-> FALSE]

\* the response the client gets from the writes of a handler that returned
Respond(writes) ==
    [status  |-> IF writes = <<>> THEN 200 ELSE writes[1].code,
     writes  |-> writes,
     aborted |-> FALSE]

\* a handler that panicked: net/http recovers and drops the connection
AbortedResponse == [status |-> 0, writes |-> <<>>, aborted |-> TRUE]

(* ------------------------------ slot steps ---------------------------- *)

QuestionCondition ==
    <<"Please specify the condition of the required item. (New, Used or None)">>
QuestionMinPrice ==
    <<"Please specify the minimum price of the required item. (None in case you dont want to filter with minimum price)">>
QuestionMaxPrice ==
    <<"Please specify the maximum price of the required item. (None in case you dont want to filter with maximum price)">>

S_new  == <<"n", "e", "w">>
S_used == <<"u", "s", "e", "d">>
S_none == <<"n", "o", "n", "e">>
S_New  == <<"N", "e", "w">>
S_Used == <<"U", "s", "e", "d">>

\* a slot step's result: the session after it, its return value and what it wrote
StepResult(s, r, w) == [session |-> s, ret |-> r, writes |-> w]

\* if _, found := session[marker]; !found { session[marker] = false }
InitMarker(session, marker) ==
    IF Has(session, marker) THEN session ELSE Put(session, marker, FALSE)

\* mutant: the condition is stored as it was typed
CanonicalAsTyped(message) == message

\* new -> New, used -> Used, anything else kept as typed
Canonical(message) ==
    IF EqualFold(message, S_new) THEN S_New
    ELSE IF EqualFold(message, S_used) THEN S_Used
    ELSE message

\* the question branch shared by the three slot steps: the session is encoded
\* into the reply before the marker is flipped
AskSlot(s1, marker, question) ==
    StepResult(Put(s1, marker, TRUE), 1,
               <<writeJSON([message |-> question, session |-> s1])>>)

\* mutant: storing the answer takes the marker back
filterByConditionUnmarks(session, message) ==
    LET s1 == InitMarker(session, "conditionBool")
    IN  IF Has(s1, "condition") THEN StepResult(s1, 0, <<>>)
        ELSE IF ~s1["conditionBool"] THEN AskSlot(s1, "conditionBool", QuestionCondition)
        ELSE StepResult(Put(Put(s1, "condition", Canonical(message)),
                            "conditionBool", FALSE), 0, <<>>)

\* src/main.go filterByCondition
filterByCondition(session, message) ==
    LET s1 == InitMarker(session, "conditionBool")
    IN  IF Has(s1, "condition") THEN StepResult(s1, 0, <<>>)
        ELSE IF ~s1["conditionBool"] THEN AskSlot(s1, "conditionBool", QuestionCondition)
        ELSE StepResult(Put(s1, "condition", Canonical(message)), 0, <<>>)

\* mutant: a rejected answer is asked for again but stays stored
filterByConditionRejectingKeeps(session, message) ==
    LET s1 == InitMarker(session, "conditionBool")
    IN  IF Has(s1, "condition") THEN StepResult(s1, 0, <<>>)
        ELSE IF ~s1["conditionBool"] THEN AskSlot(s1, "conditionBool", QuestionCondition)
        ELSE IF EqualFold(message, S_new) \/ EqualFold(message, S_used)
                \/ EqualFold(message, S_none)
        THEN StepResult(Put(s1, "condition", Canonical(message)), 0, <<>>)
        ELSE StepResult(Put(Put(s1, "condition", message), "conditionBool", TRUE),
                        1, <<writeJSON([message |-> QuestionCondition])>>)

\* src/unnamed/part_000 filterByCondition: an answer that is not new, used or
\* none is dropped and the question is written again, without the session
filterByConditionRejecting(session, message) ==
    LET s1 == InitMarker(session, "conditionBool")
    IN  IF Has(s1, "condition") THEN StepResult(s1, 0, <<>>)
        ELSE IF ~s1["conditionBool"] THEN AskSlot(s1, "conditionBool", QuestionCondition)
        ELSE IF EqualFold(message, S_new) \/ EqualFold(message, S_used)
                \/ EqualFold(message, S_none)
        THEN StepResult(Put(s1, "condition", Canonical(message)), 0, <<>>)
        ELSE StepResult(Put(Delete(Put(s1, "condition", message), "condition"),
                            "conditionBool", TRUE),
                        1, <<writeJSON([message |-> QuestionCondition])>>)

\* mutant: the question is written but the marker is left false
filterByMinPriceNoFlip(session, message) ==
    LET s1 == InitMarker(session, "minPriceBool")
    IN  IF Has(s1, "minPrice") THEN StepResult(s1, 0, <<>>)
        ELSE IF ~s1["minPriceBool"]
        THEN StepResult(s1, 1, <<writeJSON([message |-> QuestionMinPrice, session |-> s1])>>)
        ELSE StepResult(Put(s1, "minPrice", message), 0, <<>>)

\* mutant: the utterance is taken as the minimum price without asking for it
filterByMinPriceReusesAnswer(session, message) ==
    LET s1 == InitMarker(session, "minPriceBool")
    IN  IF Has(s1, "minPrice") THEN StepResult(s1, 0, <<>>)
        ELSE StepResult(Put(Put(s1, "minPriceBool", TRUE), "minPrice", message), 0, <<>>)

\* src/main.go filterByMinPrice (the same in both builds)
filterByMinPrice(session, message) ==
    LET s1 == InitMarker(session, "minPriceBool")
    IN  IF Has(s1, "minPrice") THEN StepResult(s1, 0, <<>>)
        ELSE IF ~s1["minPriceBool"] THEN AskSlot(s1, "minPriceBool", QuestionMinPrice)
        ELSE StepResult(Put(s1, "minPrice", message), 0, <<>>)

\* mutant: a missing marker is initialised to true, so the step never asks
filterByMaxPriceEager(session, message) ==
    LET s1 == IF Has(session, "maxPriceBool") THEN session
              ELSE Put(session, "maxPriceBool", TRUE)
    IN  IF Has(s1, "maxPrice") THEN StepResult(s1, 0, <<>>)
        ELSE IF ~s1["maxPriceBool"] THEN AskSlot(s1, "maxPriceBool", QuestionMaxPrice)
        ELSE StepResult(Put(s1, "maxPrice", message), 0, <<>>)

\* src/main.go filterByMaxPrice (the same in both builds)
filterByMaxPrice(session, message) ==
    LET s1 == InitMarker(session, "maxPriceBool")
    IN  IF Has(s1, "maxPrice") THEN StepResult(s1, 0, <<>>)
        ELSE IF ~s1["maxPriceBool"] THEN AskSlot(s1, "maxPriceBool", QuestionMaxPrice)
        ELSE StepResult(Put(s1, "maxPrice", message), 0, <<>>)

\* mutant: the keyword is percent-encoded when it is stored
BindKeywordEncoded(session, message) ==
    IF Has(session, "searchByKeyword") THEN session
    ELSE Put(session, "searchByKeyword", ReplaceSpaces(message))

\* mutant: every utterance is stored as the keyword
BindKeywordOverwrite(session, message) == Put(session, "searchByKeyword", message)

\* if _, found := session["searchByKeyword"]; !found { ... = message }
BindKeyword(session, message) ==
    IF Has(session, "searchByKeyword") THEN session
    ELSE Put(session, "searchByKeyword", message)

\* mutant: the price questions come before the condition question
SlotStepsPriceFirst(v, session, message) ==
    LET s0 == BindKeyword(session, message)
        r1 == filterByMinPrice(s0, message)
    IN  IF r1.ret = 1 THEN r1
        ELSE LET r2 == filterByMaxPrice(r1.session, message)
             IN  IF r2.ret = 1 THEN r2
                 ELSE IF v = "rejecting"
                      THEN filterByConditionRejecting(r2.session, message)
                      ELSE filterByCondition(r2.session, message)

\* the three slot steps in order, each skipped once an earlier one returned 1
SlotSteps(v, session, message) ==
    LET s0 == BindKeyword(session, message)
        r1 == IF v = "rejecting" THEN filterByConditionRejecting(s0, message)
              ELSE filterByCondition(s0, message)
    IN  IF r1.ret = 1 THEN r1
        ELSE LET r2 == filterByMinPrice(r1.session, message)
             IN  IF r2.ret = 1 THEN r2
                 ELSE filterByMaxPrice(r2.session, message)

(* ------------------------------ the query ----------------------------- *)

\* numOfResults := strconv.Itoa(5)
RequestedCount == 5

EndpointURL ==
    <<"http://svcs.ebay.com/services/search/FindingService/v1?OPERATION-NAME=findItemsByKeywords&SERVICE-VERSION=1.0.0&SECURITY-APPNAME=TheLuxur-TheLuxur-PRD-45d705b3d-83824180&RESPONSE-DATA-FORMAT=JSON&REST-PAYLOAD&paginationInput.entriesPerPage=">>

ItemFilter(index, name, value) ==
    <<"&itemFilter(">> \o Itoa(index) \o <<").name=", name, "&itemFilter(">>
        \o Itoa(index) \o <<").value=">> \o value

\* mutant: the sentinel is compared letter by letter
BuildURLCaseSensitive(session) ==
    LET condition == session["condition"]
        minPrice  == session["minPrice"]
        maxPrice  == session["maxPrice"]
        keyword   == ReplaceSpaces(session["searchByKeyword"])
        url0 == EndpointURL \o Itoa(RequestedCount) \o <<"&keywords=">> \o keyword
        c    == condition # S_none
        url1 == IF c THEN url0 \o ItemFilter(0, "Condition", condition) ELSE url0
        i1   == IF c THEN 1 ELSE 0
        m    == minPrice # S_none
        url2 == IF m THEN url1 \o ItemFilter(i1, "MinPrice", minPrice) ELSE url1
        i2   == IF m THEN i1 + 1 ELSE i1
    IN  IF maxPrice # S_none
        THEN url2 \o ItemFilter(i2, "MaxPrice", maxPrice)
        ELSE url2

\* mutant: every slot has its own fixed filter index
BuildURLSlotIndex(session) ==
    LET condition == session["condition"]
        minPrice  == session["minPrice"]
        maxPrice  == session["maxPrice"]
        keyword   == ReplaceSpaces(session["searchByKeyword"])
        url0 == EndpointURL \o Itoa(RequestedCount) \o <<"&keywords=">> \o keyword
        url1 == IF ~EqualFold(condition, S_none)
                THEN url0 \o ItemFilter(0, "Condition", condition) ELSE url0
        url2 == IF ~EqualFold(minPrice, S_none)
                THEN url1 \o ItemFilter(1, "MinPrice", minPrice) ELSE url1
    IN  IF ~EqualFold(maxPrice, S_none)
        THEN url2 \o ItemFilter(2, "MaxPrice", maxPrice)
        ELSE url2

\* the URL sampleProcessor builds from the four slots
BuildURL(session) ==
    LET condition == session["condition"]
        minPrice  == session["minPrice"]
        maxPrice  == session["maxPrice"]
        keyword   == ReplaceSpaces(session["searchByKeyword"])
        url0 == EndpointURL \o Itoa(RequestedCount) \o <<"&keywords=">> \o keyword
        c    == ~EqualFold(condition, S_none)
        url1 == IF c THEN url0 \o ItemFilter(0, "Condition", condition) ELSE url0
        i1   == IF c THEN 1 ELSE 0
        m    == ~EqualFold(minPrice, S_none)
        url2 == IF m THEN url1 \o ItemFilter(i1, "MinPrice", minPrice) ELSE url1
        i2   == IF m THEN i1 + 1 ELSE i1
    IN  IF ~EqualFold(maxPrice, S_none)
        THEN url2 \o ItemFilter(i2, "MaxPrice", maxPrice)
        ELSE url2

(* ------------------------------ the payload --------------------------- *)

\* a field of the downstream JSON: present with a string value, or absent
Some(v) == [ok |-> TRUE, v |-> v]
None == [ok |-> FALSE, v |-> <<>>]

\* one element of searchResult[0].item; an element that lacks a field or has
\* it in another shape makes the type assertions of generateResponse panic
Item(n, wellFormed) ==
    [wellFormed |-> wellFormed,
     itemId      |-> <<"id">> \o Itoa(n),
     galleryURL  |-> <<"http://gallery/">> \o Itoa(n),
     viewItemURL |-> <<"http://item/">> \o Itoa(n),
     title       |-> <<"title">> \o Itoa(n),
     condition   |-> S_New,
     price       |-> <<"9", "0">>,
     currency    |-> <<"USD">>]

Payload(ack, errorMessage, count, items, itemSearchURL) ==
    [ack |-> ack, errorMessage |-> errorMessage, count |-> count,
     items |-> items, itemSearchURL |-> itemSearchURL]

S_failure == <<"f", "a", "i", "l", "u", "r", "e">>
S_Failure == <<"F", "a", "i", "l", "u", "r", "e">>
S_FAILURE == <<"F", "A", "I", "L", "U", "R", "E">>
S_Success == <<"S", "u", "c", "c", "e", "s", "s">>

InvalidKeyword == <<"Invalid keyword">>
PageURL == <<"http://results/page">>

FailurePayload(ack) ==
    Payload(Some(ack), Some(InvalidKeyword), None, [ok |-> FALSE, v |-> <<>>], None)

SuccessPayload(count, items) ==
    Payload(Some(S_Success), None, Some(count), [ok |-> TRUE, v |-> items], Some(PageURL))

\* the payloads the downstream API is let to answer with
Payloads ==
    { FailurePayload(S_Failure), FailurePayload(S_FAILURE),
      \* a failure acknowledgement without the nested error message
      Payload(Some(S_Failure), None, None, [ok |-> FALSE, v |-> <<>>], None),
      SuccessPayload(<<"0">>, <<>>),
      SuccessPayload(<<"2">>, <<Item(1, TRUE), Item(2, TRUE)>>),
      SuccessPayload(<<"7">>, <<Item(1, TRUE), Item(2, TRUE)>>),
      \* an item without the expected fields
      SuccessPayload(<<"1">>, <<Item(1, FALSE)>>),
      \* a count that is no number
      SuccessPayload(<<"x">>, <<Item(1, TRUE)>>),
      \* valid JSON with none of the fields: {}
      Payload(None, None, None, [ok |-> FALSE, v |-> <<>>], None) }

\* what the GET yields: a parsed payload, or a transport / timeout / parse error
Downstream ==
    { [kind |-> "json", js |-> p] : p \in Payloads }
    \cup { [kind |-> "error", js |-> Payload(None, None, None, [ok |-> FALSE, v |-> <<>>], None)] }

(* ------------------------------ the formatter ------------------------- *)

ErrorSuffix == <<"<br>  What else would you like to search for? ">>
ZeroResultsMessage ==
    <<"There are no items matching your criteria. <br> What else would you like to search for? ">>

\* a formatter step's result; end is "next" (fall through to the caller's next
\* statement), "return" (the caller returns), "panic" or "fatal" (log.Fatal)
FmtResult(s, w, e) == [session |-> s, writes |-> w, end |-> e]

\* src/main.go handleError: no return value, errors of the lookups ignored
handleError(js, session) ==
    IF EqualFold(js.ack.v, S_failure)
    THEN FmtResult(ClearSession(session),
                   <<writeJSON([message |-> js.errorMessage.v \o ErrorSuffix])>>, "next")
    ELSE FmtResult(session, <<>>, "next")

\* mutant: the zero-results reply encodes the session, as the questions do
handleCaseZeroWithSession(js, session) ==
    IF Atoi(js.count.v).val = 0
    THEN FmtResult(ClearSession(session),
                   <<writeJSON([message |-> ZeroResultsMessage, session |-> session])>>, "next")
    ELSE FmtResult(session, <<>>, "next")

\* src/main.go handleCaseZero: no return value; a missing or non-numeric
\* count converts to 0
handleCaseZero(js, session) ==
    IF Atoi(js.count.v).val = 0
    THEN FmtResult(ClearSession(session),
                   <<writeJSON([message |-> ZeroResultsMessage])>>, "next")
    ELSE FmtResult(session, <<>>, "next")

ItemBlock(index, element) ==
    LET i == Itoa(index) IN
    <<"<br> Item ">> \o i \o <<" Title : ">> \o element.title
      \o <<"<br> Item ">> \o i \o <<" Condition : ">> \o element.condition
      \o <<"<br> Item ">> \o i \o <<" Price : ">> \o element.price \o <<" ">> \o element.currency
      \o <<"<br> Item ">> \o i \o <<" Gallery : <a href='">> \o element.galleryURL
      \o <<"'>">> \o element.viewItemURL \o <<"</a>">>
      \o <<"<br> Item ">> \o i \o <<" URL : <a href='">> \o element.viewItemURL
      \o <<"'>">> \o element.viewItemURL \o <<"</a><br>">>

RECURSIVE ItemBlocks(_, _)
ItemBlocks(items, index) ==
    IF items = <<>> THEN <<>>
    ELSE ItemBlock(index, Head(items)) \o ItemBlocks(Tail(items), index + 1)

\* mutant: the results are written and the session is left as it is
generateResponseNoReset(js, session, numOfResults) ==
    IF \E i \in 1..Len(js.items.v) : ~js.items.v[i].wellFormed
    THEN FmtResult(session, <<>>, "panic")
    ELSE FmtResult(session,
                   <<writeJSON([message |-> <<"There are ">> \o numOfResults
                        \o <<" items matching your criteria : ">>])>>, "return")

\* src/main.go generateResponse
generateResponse(js, session, numOfResults) ==
    LET items   == IF js.items.ok THEN js.items.v ELSE <<>>
        pageURL == js.itemSearchURL.v
        response ==
            <<"There are ">> \o numOfResults
              \o <<" items matching your criteria : ">>
              \o ItemBlocks(items, 1)
              \o <<"<br> Results Page URL : <a href='">> \o pageURL \o <<"'>">> \o pageURL
              \o <<"</a> <br>  What else would you like to search for?">>
    IN  IF \E i \in 1..Len(items) : ~items[i].wellFormed
        THEN FmtResult(session, <<>>, "panic")
        ELSE FmtResult(ClearSession(session), <<writeJSON([message |-> response])>>, "return")

\* src/main.go sampleProcessor, lines 220-228: the three steps run one after
\* the other, whatever the earlier ones did
Format(js, session) ==
    LET r1 == handleError(js, session)
        r2 == handleCaseZero(js, r1.session)
        r3 == generateResponse(js, r2.session, Itoa(RequestedCount))
    IN  FmtResult(r3.session, r1.writes \o r2.writes \o r3.writes, r3.end)

\* src/unnamed/part_000 handleError: returns 1 after reporting, answers with
\* http.Error and status 400, and a failed lookup is fatal
handleErrorRejecting(js, session) ==
    IF ~js.ack.ok THEN FmtResult(session, <<>>, "fatal")
    ELSE IF EqualFold(js.ack.v, S_failure)
    THEN IF ~js.errorMessage.ok THEN FmtResult(session, <<>>, "fatal")
         ELSE FmtResult(ClearSession(session),
                        <<httpError(js.errorMessage.v \o ErrorSuffix, 400)>>, "return")
    ELSE FmtResult(session, <<>>, "next")

\* src/unnamed/part_000 handleCaseZero
handleCaseZeroRejecting(js, session) ==
    IF ~js.count.ok \/ Atoi(js.count.v).err THEN FmtResult(session, <<>>, "fatal")
    ELSE IF Atoi(js.count.v).val = 0
    THEN FmtResult(ClearSession(session),
                   <<writeJSON([message |-> ZeroResultsMessage])>>, "return")
    ELSE FmtResult(session, <<>>, "next")

ItemBlockRejecting(index, element) ==
    LET i == Itoa(index) IN
    <<"<br> Item ">> \o i \o <<" Title : ">> \o element.title
      \o <<"<br> Item ">> \o i \o <<" Condition : ">> \o element.condition
      \o <<"<br> Item ">> \o i \o <<" Price : ">> \o element.price \o <<" ">> \o element.currency
      \o <<"<br> Item ">> \o i \o <<" Gallery : <img src='">> \o element.galleryURL
      \o <<"'>", "</img>">>
      \o <<"<br> Item ">> \o i \o <<" URL : <a href='">> \o element.viewItemURL
      \o <<"'target='_blank' style='color:#c48843;'>">> \o element.viewItemURL
      \o <<"</a><br>">>

RECURSIVE ItemBlocksRejecting(_, _)
ItemBlocksRejecting(items, index) ==
    IF items = <<>> THEN <<>>
    ELSE ItemBlockRejecting(index, Head(items))
         \o ItemBlocksRejecting(Tail(items), index + 1)

\* if numOfFetchedResults1 < 5 { numOfResults = numOfFetchedResults }
StatedCount(numOfFetchedResults, numOfResults) ==
    IF Atoi(numOfFetchedResults).val < 5 THEN numOfFetchedResults ELSE numOfResults

\* src/unnamed/part_000 generateResponse
generateResponseRejecting(js, session, numOfResults) ==
    LET items   == js.items.v
        pageURL == js.itemSearchURL.v
        response ==
            <<"There are ">> \o StatedCount(js.count.v, numOfResults)
              \o <<" items matching your criteria : <br>">>
              \o ItemBlocksRejecting(items, 1)
              \o <<"<br> Results Page URL : <a href='">> \o pageURL
              \o <<"'target='_blank' style='color:#c48843;'>">> \o pageURL
              \o <<"</a> <br><br> What else would you like to search for?">>
    IN  IF ~js.items.ok \/ ~js.itemSearchURL.ok \/ ~js.count.ok
        THEN FmtResult(session, <<>>, "fatal")
        ELSE IF \E i \in 1..Len(items) : ~items[i].wellFormed
        THEN FmtResult(session, <<>>, "panic")
        ELSE IF Atoi(js.count.v).err THEN FmtResult(session, <<>>, "fatal")
        ELSE FmtResult(ClearSession(session), <<writeJSON([message |-> response])>>, "return")

\* src/unnamed/part_000 sampleProcessor, lines 525-541: each step's flag ends the turn
FormatRejecting(js, session) ==
    LET r1 == handleErrorRejecting(js, session)
    IN  IF r1.end # "next" THEN r1
        ELSE LET r2 == handleCaseZeroRejecting(js, r1.session)
             IN  IF r2.end # "next" THEN r2
                 ELSE generateResponseRejecting(js, r2.session, Itoa(RequestedCount))

(* ------------------------------ the legacy build ---------------------- *)

S_no  == <<"n", "o">>
S_all == <<"a", "l", "l">>

LegacyQuestionCondition == <<"New, Used or All">>
LegacyQuestionMinPrice  == <<"Min Price or All?">>
LegacyQuestionMaxPrice  == <<"Max Price or All?">>
LegacyNextQuestion      == <<"What are u looking for?">>

\* the three slot blocks of the legacy sampleProcessor, written inline there
SlotStepsLegacy(session, message) ==
    LET c1 == InitMarker(session, "conditionBool")
    IN  IF ~Has(c1, "condition") /\ ~c1["conditionBool"]
        THEN AskSlot(c1, "conditionBool", LegacyQuestionCondition)
        ELSE
        LET c2 == IF Has(c1, "condition") THEN c1
                  ELSE Put(c1, "condition", Canonical(message))
            m1 == InitMarker(c2, "minPriceBool")
        IN  IF ~Has(m1, "minPrice") /\ ~m1["minPriceBool"]
            THEN AskSlot(m1, "minPriceBool", LegacyQuestionMinPrice)
            ELSE
            LET m2 == IF Has(m1, "minPrice") THEN m1 ELSE Put(m1, "minPrice", message)
                x1 == InitMarker(m2, "maxPriceBool")
            IN  IF ~Has(x1, "maxPrice") /\ ~x1["maxPriceBool"]
                THEN AskSlot(x1, "maxPriceBool", LegacyQuestionMaxPrice)
                ELSE StepResult(IF Has(x1, "maxPrice") THEN x1
                                ELSE Put(x1, "maxPrice", message), 0, <<>>)

\* numOfResults := strconv.Itoa(2)
RequestedCountLegacy == 2

\* the URL the legacy build sends: the sentinel is all
BuildURLLegacy(session) ==
    LET condition == session["condition"]
        minPrice  == session["minPrice"]
        maxPrice  == session["maxPrice"]
        message1  == ReplaceSpaces(session["searchByKeyword"])
        url0 == EndpointURL \o Itoa(RequestedCountLegacy) \o <<"&keywords=">> \o message1
        c    == ~EqualFold(condition, S_all)
        url1 == IF c THEN url0 \o ItemFilter(0, "Condition", condition) ELSE url0
        i1   == IF c THEN 1 ELSE 0
        m    == ~EqualFold(minPrice, S_all)
        url2 == IF m THEN url1 \o ItemFilter(i1, "MinPrice", minPrice) ELSE url1
        i2   == IF m THEN i1 + 1 ELSE i1
    IN  IF ~EqualFold(maxPrice, S_all)
        THEN url2 \o ItemFilter(i2, "MaxPrice", maxPrice)
        ELSE url2

LegacySuffix == <<"<br> What are you looking for? say something like 'Gucci Tshirt' ">>

ItemBlockLegacy(index, element) ==
    LET i == Itoa(index) IN
    <<"<br> Item ">> \o i \o <<" Title : ">> \o element.title
      \o <<"<br> Item ">> \o i \o <<" Condition : ">> \o element.condition
      \o <<"<br> Item ">> \o i \o <<" Price : ">> \o element.price
      \o <<"<br> Item ">> \o i \o <<" Gallery URL :<a href='">> \o element.galleryURL
      \o <<"'>">> \o element.viewItemURL \o <<"</a>">>
      \o <<"<br> Item ">> \o i \o <<" Item URL :<a href='">> \o element.viewItemURL
      \o <<"'>">> \o element.viewItemURL \o <<"</a>">>

RECURSIVE ItemBlocksLegacy(_, _)
ItemBlocksLegacy(items, index) ==
    IF items = <<>> THEN <<>>
    ELSE ItemBlockLegacy(index, Head(items)) \o ItemBlocksLegacy(Tail(items), index + 1)

\* the formatting tail of the legacy sampleProcessor: a failure is reported,
\* anything else is rendered as "There are 2 items", whatever the count
FormatLegacy(js, session) ==
    LET items == IF js.items.ok THEN js.items.v ELSE <<>>
    IN  IF EqualFold(js.ack.v, S_failure)
        THEN FmtResult(ClearSession(session),
                       <<writeJSON([message |-> js.errorMessage.v \o LegacySuffix])>>, "return")
        ELSE IF \E i \in 1..Len(items) : ~items[i].wellFormed
        THEN FmtResult(session, <<>>, "panic")
        ELSE FmtResult(ClearSession(session),
                       <<writeJSON([message |->
                            <<"There are 2 items matching your criteria : ">>
                              \o ItemBlocksLegacy(items, 1) \o LegacySuffix])>>, "return")

(* ------------------------------ the processor ------------------------- *)

\* the query and the formatter of each build
QueryOf(v, session) ==
    IF v = "legacy" THEN BuildURLLegacy(session) ELSE BuildURL(session)

FormatOf(v, js, session) ==
    IF v = "legacy" THEN FormatLegacy(js, session)
    ELSE IF v = "rejecting" THEN FormatRejecting(js, session)
    ELSE Format(js, session)

\* a turn's result: the session after it, what was written, the GET requests
\* issued with their answers, and how the turn ended
TurnResult(s, w, c, e) == [session |-> s, writes |-> w, calls |-> c, end |-> e]

Call(url, down) == [url |-> url, answer |-> down]

\* session[k].(string) for the four slots read before the query is built:
\* the assertion panics on a key that is absent
SlotsAreStrings(session) ==
    {"condition", "minPrice", "maxPrice", "searchByKeyword"} \subseteq DOMAIN session

\* mutant: a GET that fails is tried once more before giving up
DispatchWithRetry(v, session, down) ==
    IF ~SlotsAreStrings(session) THEN TurnResult(session, <<>>, <<>>, "panic")
    ELSE LET url == QueryOf(v, session)
         IN  IF down.kind = "error"
             THEN TurnResult(session, <<>>, <<Call(url, down), Call(url, down)>>, "fatal")
             ELSE LET f == FormatOf(v, down.js, session)
                  IN  TurnResult(f.session, f.writes, <<Call(url, down)>>, f.end)

\* mutant: a failed GET ends the request only, as a panic would
DispatchSurvivesError(v, session, down) ==
    IF ~SlotsAreStrings(session) THEN TurnResult(session, <<>>, <<>>, "panic")
    ELSE LET url == QueryOf(v, session)
         IN  IF down.kind = "error"
             THEN TurnResult(session, <<>>, <<Call(url, down)>>, "panic")
             ELSE LET f == FormatOf(v, down.js, session)
                  IN  TurnResult(f.session, f.writes, <<Call(url, down)>>, f.end)

\* the dispatching half of sampleProcessor: the query, the GET, the formatter
Dispatch(v, session, down) ==
    IF ~SlotsAreStrings(session) THEN TurnResult(session, <<>>, <<>>, "panic")
    ELSE LET url == QueryOf(v, session)
         IN  IF down.kind = "error"
             THEN TurnResult(session, <<>>, <<Call(url, down)>>, "fatal")
             ELSE LET f == FormatOf(v, down.js, session)
                  IN  TurnResult(f.session, f.writes, <<Call(url, down)>>, f.end)

\* the legacy sampleProcessor: the keyword no skips the dialogue
sampleProcessorLegacy(session, message) ==
    LET s0 == BindKeyword(session, message)
    IN  IF EqualFold(s0["searchByKeyword"], S_no)
        THEN { TurnResult(s0, <<writeJSON([message |-> LegacyNextQuestion])>>, <<>>, "return") }
        ELSE LET r == SlotStepsLegacy(s0, message)
             IN  IF r.ret = 1 THEN { TurnResult(r.session, r.writes, <<>>, "return") }
                 ELSE { Dispatch("legacy", r.session, down) : down \in Downstream }

\* sampleProcessor(session, message, w): every way the turn can go, one per
\* answer of the downstream API when the turn dispatches
sampleProcessor(v, session, message) ==
    IF v = "legacy" THEN sampleProcessorLegacy(session, message)
    ELSE
    LET r == SlotSteps(v, session, message)
    IN  IF r.ret = 1 THEN { TurnResult(r.session, r.writes, <<>>, "return") }
        ELSE { Dispatch(v, r.session, down) : down \in Downstream }

(* ------------------------------ inputs -------------------------------- *)

Variants == {"main", "rejecting"}

\* what users type
Utterances ==
    { <<"G", " ", "T">>, <<"n", "e", "w">>, <<"N", "O", "N", "E">> }

\* a request body as handleChat sees it; "unread" when the handler returned
\* before decoding it
Body(kind, message) == [kind |-> kind, message |-> message]

Bodies ==
    { Body("undecodable", <<>>), Body("nomessage", <<>>), Body("nonstring", <<>>) }
    \cup { Body("message", m) : m \in Utterances }

\* what users of the legacy build type
UtterancesLegacy ==
    { <<"n", "o">>, <<"N", "O", "N", "E">>, <<"A", "l", "l">> }

BodiesLegacy ==
    { Body("undecodable", <<>>), Body("nomessage", <<>>), Body("nonstring", <<>>) }
    \cup { Body("message", m) : m \in UtterancesLegacy }

\* the three builds
Builds == Variants \cup {"legacy"}

\* Authorization headers: none, the identifiers welcome can issue, a made-up one
Headers == { <<>>, <<"forged">> } \cup { Uuid(t) : t \in 0..MaxTime }

Request(op, uuid, body) == [op |-> op, uuid |-> uuid, body |-> body]

\* the chat requests that can be in the handler at the same time
Procs == {1, 2}

\* a request in the handler: where it is in sampleProcessor (pc, and slot for
\* the three slot steps), its utterance, and the url and payload once it has them
Flight(pc, slot, message, url, js) ==
    [pc |-> pc, slot |-> slot, message |-> message, url |-> url, js |-> js]

NoPayload == Payload(None, None, None, [ok |-> FALSE, v |-> <<>>], None)

IdleFlight == Flight("idle", 0, <<>>, <<>>, NoPayload)

\* flight says, in the specification of interleaved requests, where each
\* request is; the specifications that handle one request at a time leave
\* it idle
NoFlights == [p \in Procs |-> IdleFlight]

(* ------------------------------ history ------------------------------- *)

Questions ==
    { QuestionCondition, QuestionMinPrice, QuestionMaxPrice,
      LegacyQuestionCondition, LegacyQuestionMinPrice, LegacyQuestionMaxPrice }

IsQuestion(w) == w.type = "json" /\ w.body.message \in Questions

RECURSIVE AskedIn(_)
\* the slot questions among a turn's writes, in order
AskedIn(writes) ==
    IF writes = <<>> THEN <<>>
    ELSE (IF IsQuestion(Head(writes)) THEN <<Head(writes).body.message>> ELSE <<>>)
         \o AskedIn(Tail(writes))

\* before is the slot bag the last chat request found under its identifier (no
\* keys when there was none), as it was before the request was handled
\* per session, the conversation cycle in progress: a cycle starts with the
\* turn that finds the slot bag empty
\* cycle counts the cycles since the welcome that issued the identifier
NoCycle == [cycle |-> 0, turns |-> 0, asked |-> <<>>, searches |-> 0]

NextCycle(h, pre, r) ==
    LET base == IF DOMAIN pre = {}
                THEN [cycle |-> h.cycle + 1, turns |-> 0, asked |-> <<>>, searches |-> 0]
                ELSE h
    IN  [cycle    |-> base.cycle,
         turns    |-> base.turns + 1,
         asked    |-> base.asked \o AskedIn(r.writes),
         searches |-> base.searches + Len(r.calls)]

(* ------------------------------ actions ------------------------------- *)

Init ==
    /\ variant \in Variants
    /\ alive = TRUE
    /\ now = 0
    /\ sessions = [u \in {} |-> EmptySession]
    /\ served = 0
    /\ req = Request("none", <<>>, Body("unread", <<>>))
    /\ resp = NoResponse
    /\ calls = <<>>
    /\ hist = [u \in {} |-> NoCycle]
    /\ before = EmptySession
    /\ flight = NoFlights

WelcomeMessage ==
    <<"Welcome to The Luxury Shopper.<br> What are you looking for? say something like 'Gucci Tshirt' ">>

\* sessions[uuid] = v
Store(store, uuid, v) ==
    [u \in (DOMAIN store) \cup {uuid} |-> IF u = uuid THEN v ELSE store[u]]

\* GET /welcome, served when the clock reads t
handleWelcomeAt(t) ==
    LET uuid == Uuid(t)
    IN  /\ now' = t
        /\ sessions' = Store(sessions, uuid, EmptySession)
        /\ hist' = Store(hist, uuid, NoCycle)
        /\ req' = Request("welcome", <<>>, Body("unread", <<>>))
        /\ resp' = Respond(<<writeJSON([message |-> WelcomeMessage, uuid |-> uuid])>>)
        /\ calls' = <<>>
        /\ before' = EmptySession
        /\ UNCHANGED <<flight, variant, alive, served>>

\* GET /welcome: time.Now().Unix() never runs backwards
handleWelcome ==
    /\ alive
    /\ \E t \in now..MaxTime : handleWelcomeAt(t)

\* the slot bag a chat request with this Authorization header finds
Found(uuid) == IF uuid \in DOMAIN sessions THEN sessions[uuid] ELSE EmptySession

\* mutant: a refused request drops the slots of the session it addressed
RefuseAndReset(uuid, body, text, code) ==
    /\ req' = Request("chat", uuid, body)
    /\ resp' = Respond(<<httpError(text, code)>>)
    /\ calls' = <<>>
    /\ before' = Found(uuid)
    /\ sessions' = IF uuid \in DOMAIN sessions
                   THEN Store(sessions, uuid, EmptySession) ELSE sessions
    /\ UNCHANGED <<flight, variant, alive, now, served, hist>>

\* handleChat answering with http.Error before the processor is reached
Refuse(uuid, body, text, code) ==
    /\ req' = Request("chat", uuid, body)
    /\ resp' = Respond(<<httpError(text, code)>>)
    /\ calls' = <<>>
    /\ before' = Found(uuid)
    /\ UNCHANGED <<flight, variant, alive, now, sessions, served, hist>>

\* processor(session, data["message"].(string), w) and what becomes of its result
Process(uuid, body) ==
    /\ served < MaxTurns
    /\ \E r \in sampleProcessor(variant, sessions[uuid], body.message) :
          /\ sessions' = Store(sessions, uuid, r.session)
          /\ hist' = Store(hist, uuid, NextCycle(hist[uuid], sessions[uuid], r))
          /\ calls' = r.calls
          /\ alive' = (r.end # "fatal")
          /\ resp' = IF r.end = "return" THEN Respond(r.writes) ELSE AbortedResponse
    /\ req' = Request("chat", uuid, body)
    /\ before' = Found(uuid)
    /\ served' = served + 1
    /\ UNCHANGED <<flight, variant, now>>

\* POST /chat with the given Authorization header and body
handleChatWith(uuid, body) ==
    IF body.kind = "undecodable"
    THEN Refuse(uuid, body, <<"Couldn't decode JSON: ">>, 400)
    ELSE IF body.kind = "nomessage"
    THEN Refuse(uuid, body, <<"Missing message key in body.">>, 400)
    ELSE IF body.kind = "nonstring"
    THEN \* data["message"].(string) panics
         /\ req' = Request("chat", uuid, body)
         /\ resp' = AbortedResponse
         /\ calls' = <<>>
         /\ before' = Found(uuid)
         /\ UNCHANGED <<flight, variant, alive, now, sessions, served, hist>>
    ELSE Process(uuid, body)

\* mutant: a chat request with an unknown identifier gets a session of its own
handleChatAutoCreate ==
    /\ alive
    /\ \E uuid \in Headers :
          IF uuid = <<>>
          THEN Refuse(uuid, Body("unread", <<>>),
                      <<"Missing or empty Authorization header.">>, 401)
          ELSE IF uuid \notin DOMAIN sessions
          THEN /\ sessions' = Store(sessions, uuid, EmptySession)
               /\ req' = Request("chat", uuid, Body("unread", <<>>))
               /\ resp' = Respond(<<httpError(<<"No session found for: ">> \o uuid \o <<".">>, 401)>>)
               /\ calls' = <<>>
               /\ before' = EmptySession
               /\ UNCHANGED <<flight, variant, alive, now, served, hist>>
          ELSE \E body \in (IF variant = "legacy" THEN BodiesLegacy ELSE Bodies) :
                  handleChatWith(uuid, body)

\* POST /chat
handleChat ==
    /\ alive
    /\ \E uuid \in Headers :
          IF uuid = <<>>
          THEN Refuse(uuid, Body("unread", <<>>),
                      <<"Missing or empty Authorization header.">>, 401)
          ELSE IF uuid \notin DOMAIN sessions
          THEN Refuse(uuid, Body("unread", <<>>),
                      <<"No session found for: ">> \o uuid \o <<".">>, 401)
          ELSE \E body \in (IF variant = "legacy" THEN BodiesLegacy ELSE Bodies) :
                  handleChatWith(uuid, body)

Next == handleWelcome \/ handleChat

Spec == Init /\ [][Next]_vars

\* the same server in any of the three builds
InitBuilds ==
    /\ variant \in Builds
    /\ alive = TRUE
    /\ now = 0
    /\ sessions = [u \in {} |-> EmptySession]
    /\ served = 0
    /\ req = Request("none", <<>>, Body("unread", <<>>))
    /\ resp = NoResponse
    /\ calls = <<>>
    /\ hist = [u \in {} |-> NoCycle]
    /\ before = EmptySession
    /\ flight = NoFlights

SpecBuilds == InitBuilds /\ [][Next]_vars

(* ------------------------------ vocabulary of the claims -------------- *)

\* the step is a chat turn of session u that reached the processor
Turn(u) ==
    /\ u \in DOMAIN sessions
    /\ served' = served + 1
    /\ req'.op = "chat" /\ req'.uuid = u /\ req'.body.kind = "message"

\* the last request was a chat turn that reached the processor
Processed == req.op = "chat" /\ req.body.kind = "message"

\* the text of a write, whichever way it was written
MessageOf(w) == IF w.type = "json" THEN w.body.message ELSE w.body.text

\* the reply that asks for the condition on the turn that bound keyword m
ConditionQuestionFor(m) ==
    writeJSON([message |-> QuestionCondition,
               session |-> [searchByKeyword |-> m, conditionBool |-> FALSE]])

\* the slot bag left by the turn that bound keyword m
AwaitingCondition(m) == [searchByKeyword |-> m, conditionBool |-> TRUE]

\* the three terminal replies
IsErrorReport(w) ==
    LET m == MessageOf(w) IN m # <<>> /\ <<m[Len(m)]>> = ErrorSuffix
IsZeroResults(w) == MessageOf(w) = ZeroResultsMessage
IsResults(w) == MessageOf(w) # <<>> /\ Head(MessageOf(w)) = "There are "

\* the last request was a turn that ended in a terminal outcome: an upstream
\* failure was reported, or zero results, or the results were delivered
TerminalOutcome ==
    /\ Processed
    /\ ~resp.aborted
    /\ \E i \in 1..Len(resp.writes) :
          IsErrorReport(resp.writes[i]) \/ IsZeroResults(resp.writes[i])
             \/ IsResults(resp.writes[i])

\* the payload the last dispatching turn got
Answer == calls[1].answer.js

(* ------------------------------ C1 ------------------------------------ *)

\* C1: a chat turn that finds the slot bag empty stores the utterance
\* unchanged as searchByKeyword, writes none of condition, minPrice and
\* maxPrice, and answers with the condition question and nothing else.
C1_FirstUtteranceIsKeyword ==
    [][\A u \in DOMAIN sessions :
          (Turn(u) /\ DOMAIN sessions[u] = {}) =>
             /\ sessions'[u] = AwaitingCondition(req'.body.message)
             /\ resp' = Respond(<<ConditionQuestionFor(req'.body.message)>>)
             /\ calls' = <<>>]_vars

C1_Witness ==
    /\ Processed
    /\ req.body.message = <<"G", " ", "T">>
    /\ hist[req.uuid].turns = 1
    /\ sessions[req.uuid]["searchByKeyword"] = <<"G", " ", "T">>
    /\ MessageOf(resp.writes[1]) = QuestionCondition

(* ------------------------------ C2 ------------------------------------ *)

IsPrefix(a, b) == Len(a) <= Len(b) /\ a = SubSeq(b, 1, Len(a))

AllQuestions == <<QuestionCondition, QuestionMinPrice, QuestionMaxPrice>>

\* how many times the condition question opens the sequence a
RECURSIVE LeadingCondition(_)
LeadingCondition(a) ==
    IF a # <<>> /\ Head(a) = QuestionCondition THEN 1 + LeadingCondition(Tail(a)) ELSE 0

\* what follows the leading condition questions
AfterCondition(a) == SubSeq(a, LeadingCondition(a) + 1, Len(a))

\* an answer filterByCondition of the rejecting build keeps
ValidCondition(m) ==
    EqualFold(m, S_new) \/ EqualFold(m, S_used) \/ EqualFold(m, S_none)

\* C2 as stated: in every cycle the condition, minPrice and maxPrice questions
\* are each emitted exactly once and in that order, whatever the utterances.
C2_AsStated ==
    \A u \in DOMAIN hist :
       /\ IsPrefix(hist[u].asked, AllQuestions)
       /\ hist[u].searches > 0 => hist[u].asked = AllQuestions

C2_Order ==
    \A u \in DOMAIN hist :
       LET a == hist[u].asked IN
       /\ IsPrefix(AfterCondition(a), <<QuestionMinPrice, QuestionMaxPrice>>)
       /\ a # <<>> => LeadingCondition(a) >= 1
       /\ variant = "main" => LeadingCondition(a) <= 1
       /\ hist[u].searches > 0 => AfterCondition(a) = <<QuestionMinPrice, QuestionMaxPrice>>

C2_Repeat ==
    \A u \in DOMAIN sessions :
       (Turn(u) /\ DOMAIN sessions[u] # {}) =>
          ( hist'[u].asked = hist[u].asked \o <<QuestionCondition>>
            <=> /\ variant = "rejecting"
                /\ "condition" \notin DOMAIN sessions[u]
                /\ ~ValidCondition(req'.body.message) )

\* C2, amended: the questions of a cycle come in the order condition,
\* minPrice, maxPrice, and all of them have been emitted when the search is
\* dispatched; minPrice and maxPrice are emitted exactly once; the condition
\* question is emitted exactly once in src/main.go, and in the rejecting build
\* once at the start of the cycle and once more for every condition answer
\* that is not new, used or none.
C2_QuestionsInOrder == [] C2_Order /\ [][C2_Repeat]_vars

C2_Witness ==
    /\ variant = "rejecting"
    /\ \E u \in DOMAIN hist :
          /\ hist[u].asked = <<QuestionCondition, QuestionCondition,
                               QuestionMinPrice, QuestionMaxPrice>>
          /\ hist[u].searches = 1

(* ------------------------------ C3 ------------------------------------ *)

\* C3: after a turn that ended in a terminal outcome the session's slot bag
\* has no keys: no value slot and no marker survives.
C3_TerminalLeavesNoKeys ==
    TerminalOutcome => DOMAIN sessions[req.uuid] = {}

C3_Witness ==
    /\ TerminalOutcome
    /\ IsResults(resp.writes[1])
    /\ hist[req.uuid].turns = 4
    /\ DOMAIN sessions[req.uuid] = {}

(* ------------------------------ C4 ------------------------------------ *)

C4_NextTurn ==
    \A u \in DOMAIN sessions :
       (TerminalOutcome /\ req.uuid = u /\ Turn(u)) =>
          /\ sessions'[u] = AwaitingCondition(req'.body.message)
          /\ resp' = Respond(<<ConditionQuestionFor(req'.body.message)>>)
          /\ hist'[u].cycle = hist[u].cycle + 1

\* C4: after a terminal outcome the identifier is still in the store, and the
\* next utterance sent with it, no welcome in between, is bound as
\* searchByKeyword and answered with the condition question, as on the first
\* turn after a welcome.
C4_IdentifierReusable ==
    [](TerminalOutcome => req.uuid \in DOMAIN sessions) /\ [][C4_NextTurn]_vars

C4_Witness ==
    /\ Processed
    /\ hist[req.uuid].cycle = 2
    /\ hist[req.uuid].turns = 1
    /\ sessions[req.uuid] = AwaitingCondition(req.body.message)
    /\ resp = Respond(<<ConditionQuestionFor(req.body.message)>>)

(* ------------------------------ C5 ------------------------------------ *)

\* the slot bag a dispatching turn reads: the one it found, with the
\* utterance as maxPrice when that slot was still open
ReadAtDispatch(pre, m) == IF Has(pre, "maxPrice") THEN pre ELSE Put(pre, "maxPrice", m)

C5_Dispatch ==
    \A u \in DOMAIN sessions :
       (Turn(u) /\ calls' # <<>>) =>
          LET pre == sessions[u] IN
          /\ {"searchByKeyword", "condition", "minPrice"} \subseteq DOMAIN pre
          /\ Has(pre, "maxPrice") \/ (Has(pre, "maxPriceBool") /\ pre["maxPriceBool"])
          /\ calls'[1].url = BuildURL(ReadAtDispatch(pre, req'.body.message))

\* C5: a search is dispatched only by a turn that finds searchByKeyword,
\* condition and minPrice stored and maxPrice either stored or asked for (the
\* utterance is then its value), and the query is built from these four
\* strings; no search is issued while a value slot is absent.
C5_SearchNeedsAllSlots == [][C5_Dispatch]_vars

C5_Witness ==
    /\ Processed
    /\ calls # <<>>
    /\ calls[1].url = BuildURL([searchByKeyword |-> <<"G", " ", "T">>,
                                condition |-> S_New,
                                minPrice |-> <<"N", "O", "N", "E">>,
                                maxPrice |-> <<"G", " ", "T">>])

(* ------------------------------ C6 ------------------------------------ *)

\* C6: no turn issues more than one downstream request (a failed request is
\* not repeated); the first three turns of a cycle issue none, and in
\* src/main.go the fourth issues exactly one.
C6_OneSearchOnFourthTurn ==
    /\ Len(calls) <= 1
    /\ Processed =>
          LET h == hist[req.uuid] IN
          /\ h.turns \in 1..3 => calls = <<>>
          /\ (variant = "main" /\ h.turns = 4) => Len(calls) = 1

C6_Witness ==
    /\ variant = "main"
    /\ Processed
    /\ hist[req.uuid].turns = 4
    /\ Len(calls) = 1
    /\ calls[1].answer.kind = "error"

(* ------------------------------ C7 .. C10 ----------------------------- *)

\* the last request dispatched a search, got a parsed payload and its handler
\* returned a response
Rendered ==
    /\ Processed
    /\ calls # <<>>
    /\ calls[1].answer.kind = "json"
    /\ alive
    /\ ~resp.aborted

AckIsFailure(js) == js.ack.ok /\ EqualFold(js.ack.v, S_failure)

\* the payload's result count, when it is a number
CountIs(js, P(_)) == js.count.ok /\ ~Atoi(js.count.v).err /\ P(Atoi(js.count.v).val)

IsZero(n) == n = 0
IsPositive(n) == n > 0

\* C7: a dispatching turn renders exactly one of the three outcomes, chosen in
\* the order upstream error, zero results, success, and writes exactly one
\* response message.
C7_ExactlyOneOutcome ==
    Rendered =>
       /\ Len(resp.writes) = 1
       /\ IF AckIsFailure(Answer) THEN IsErrorReport(resp.writes[1])
          ELSE IF CountIs(Answer, IsZero) THEN IsZeroResults(resp.writes[1])
          ELSE IsResults(resp.writes[1])

\* C8: when the payload's acknowledgement is Failure in any letter case, the
\* response is the embedded error message followed only by the fixed suffix,
\* and the slot bag is empty afterwards.
C8_FailureReported ==
    (Rendered /\ AckIsFailure(Answer)) =>
       /\ Len(resp.writes) = 1
       /\ MessageOf(resp.writes[1]) = Answer.errorMessage.v \o ErrorSuffix
       /\ DOMAIN sessions[req.uuid] = {}

\* C9: when the payload's result count is 0 and the acknowledgement is not a
\* failure, the response is the fixed zero-results message and nothing else,
\* and the slot bag is empty afterwards.
C9_ZeroResults ==
    (Rendered /\ ~AckIsFailure(Answer) /\ CountIs(Answer, IsZero)) =>
       /\ Len(resp.writes) = 1
       /\ MessageOf(resp.writes[1]) = ZeroResultsMessage
       /\ DOMAIN sessions[req.uuid] = {}

\* the count a results message states: what stands between "There are " and
\* " items matching your criteria"
StatesCount(m, n) ==
    /\ Len(m) >= Len(n) + 2
    /\ m[1] = "There are "
    /\ SubSeq(m, 2, Len(n) + 1) = n
    /\ m[Len(n) + 2] \in { " items matching your criteria : ",
                           " items matching your criteria : <br>" }

\* C10: on a successful payload the results message states the payload's
\* count when it is lower than the requested count (5), and the requested
\* count otherwise.
C10_StatesActualCount ==
    (Rendered /\ ~AckIsFailure(Answer) /\ CountIs(Answer, IsPositive)) =>
       \E i \in 1..Len(resp.writes) :
          /\ IsResults(resp.writes[i])
          /\ StatesCount(MessageOf(resp.writes[i]),
                         IF Atoi(Answer.count.v).val < RequestedCount
                         THEN Answer.count.v ELSE Itoa(RequestedCount))

(* ------------------------------ reading a query ----------------------- *)

\* the digits that start at position p of s
RECURSIVE DigitRun(_, _)
DigitRun(s, p) ==
    IF p <= Len(s) /\ IsDigit(s[p]) THEN <<s[p]>> \o DigitRun(s, p + 1) ELSE <<>>

\* does a filter clause "&itemFilter(<i>).name=<name>&itemFilter(<j>).value="
\* start at position p of the URL
ClauseAt(url, p) ==
    /\ url[p] = "&itemFilter("
    /\ LET d == DigitRun(url, p + 1)
           q == p + Len(d) + 3
       IN  /\ d # <<>>
           /\ q <= Len(url)
           /\ url[p + Len(d) + 1] = ").name="
           /\ url[q] = "&itemFilter("
           /\ LET e == DigitRun(url, q + 1)
              IN  /\ e # <<>>
                  /\ q + Len(e) + 1 <= Len(url)
                  /\ url[q + Len(e) + 1] = ").value="

ClauseStarts(url) == { p \in 1..Len(url) : ClauseAt(url, p) }

\* where the text that starts at p ends: before the next of the clause starts
\* ps, or with the URL
EndOfText(url, ps, p) ==
    LET later == { q \in ps : q >= p }
    IN  IF later = {} THEN Len(url)
        ELSE (CHOOSE q \in later : \A r \in later : q <= r) - 1

\* the filter clause that starts at p: its name, its two indices, its value
ClauseOf(url, ps, p) ==
    LET d == DigitRun(url, p + 1)
        q == p + Len(d) + 3
        e == DigitRun(url, q + 1)
        v == q + Len(e) + 2
    IN  [name       |-> url[p + Len(d) + 2],
         nameIndex  |-> DigitsValue(d, 0),
         valueIndex |-> DigitsValue(e, 0),
         value      |-> SubSeq(url, v, EndOfText(url, ps, v))]

\* the clauses that start at the positions rest, in order of appearance
RECURSIVE ClausesFrom(_, _, _)
ClausesFrom(url, ps, rest) ==
    IF rest = {} THEN <<>>
    ELSE LET p == CHOOSE q \in rest : \A r \in rest : q <= r
         IN  <<ClauseOf(url, ps, p)>> \o ClausesFrom(url, ps, rest \ {p})

\* the filter clauses of a query, in order of appearance
Clauses(url) == LET ps == ClauseStarts(url) IN ClausesFrom(url, ps, ps)

\* the keywords parameter of a query
KeywordOf(url) ==
    LET k == CHOOSE p \in 1..Len(url) : url[p] = "&keywords="
    IN  SubSeq(url, k + 1, EndOfText(url, ClauseStarts(url), k + 1))

\* %20 read back as a space
RECURSIVE DecodeSpaces(_)
DecodeSpaces(s) ==
    IF s = <<>> THEN <<>>
    ELSE IF Len(s) >= 3 /\ SubSeq(s, 1, 3) = <<"%", "2", "0">>
    THEN <<" ">> \o DecodeSpaces(SubSeq(s, 4, Len(s)))
    ELSE <<Head(s)>> \o DecodeSpaces(Tail(s))

\* name and value of each clause, in order
NamedValues(cs) == [j \in 1..Len(cs) |-> <<cs[j].name, cs[j].value>>]

(* ------------------------------ C11 ----------------------------------- *)

\* C11: in every query that is sent, the j-th filter clause in order of
\* appearance carries the index j-1, in its name part and in its value part:
\* with k clauses appended the indices are 0, 1, ..., k-1 without a gap,
\* whichever of condition, minPrice and maxPrice are the sentinel.
C11_FilterIndicesHaveNoGaps ==
    \A i \in 1..Len(calls) :
       LET cs == Clauses(calls[i].url) IN
       \A j \in 1..Len(cs) : cs[j].nameIndex = j - 1 /\ cs[j].valueIndex = j - 1

\* only minPrice and maxPrice are active: indices 0 and 1
C11_Witness ==
    /\ calls # <<>>
    /\ LET cs == Clauses(calls[1].url) IN
       /\ Len(cs) = 2
       /\ cs[1].name = "MinPrice" /\ cs[1].nameIndex = 0 /\ cs[1].valueIndex = 0
       /\ cs[2].name = "MaxPrice" /\ cs[2].nameIndex = 1 /\ cs[2].valueIndex = 1

(* ------------------------------ C12 ----------------------------------- *)

\* the filters a query is to carry for the slot bag s: one per slot that is
\* not the sentinel none, in the order Condition, MinPrice, MaxPrice
ExpectedFilters(s) ==
    LET IsFilter(nv) == ~EqualFold(nv[2], S_none)
    IN  SelectSeq(<< <<"Condition", s["condition"]>>,
                     <<"MinPrice",  s["minPrice"]>>,
                     <<"MaxPrice",  s["maxPrice"]>> >>, IsFilter)

C12_Stored ==
    (Processed /\ ~Has(before, "condition") /\ Has(sessions[req.uuid], "condition")) =>
       LET m == req.body.message IN
       sessions[req.uuid]["condition"] =
          IF ToLower(m) = S_new THEN S_New
          ELSE IF ToLower(m) = S_used THEN S_Used
          ELSE m

C12_Sent ==
    (Processed /\ calls # <<>>) =>
       LET s   == ReadAtDispatch(before, req.body.message)
           url == calls[1].url
           kw  == KeywordOf(url)
       IN  /\ \A i \in 1..Len(kw) : kw[i] # " "
           /\ DecodeSpaces(kw) = s["searchByKeyword"]
           /\ NamedValues(Clauses(url)) = ExpectedFilters(s)

\* C12: the query that is sent carries the stored keyword with every space
\* replaced by %20 and exactly one filter per slot whose value is not the
\* sentinel, in the order Condition, MinPrice, MaxPrice, each with the stored
\* value; a condition answered as new or used in any letter case is stored
\* as New or Used.
C12_QueryCarriesSlots == C12_Stored /\ C12_Sent

\* keyword "G T", condition "new", minPrice "NONE", maxPrice "new"
C12_Witness ==
    /\ Processed
    /\ calls # <<>>
    /\ KeywordOf(calls[1].url) = <<"G", "%", "2", "0", "T">>
    /\ Clauses(calls[1].url) =
          << [name |-> "Condition", nameIndex |-> 0, valueIndex |-> 0, value |-> S_New],
             [name |-> "MaxPrice", nameIndex |-> 1, valueIndex |-> 1, value |-> S_new] >>

(* ------------------------------ C13 ----------------------------------- *)

\* the slot each filter name belongs to
SlotOfFilter == [Condition |-> "condition", MinPrice |-> "minPrice", MaxPrice |-> "maxPrice"]

\* does the query carry a filter clause for the slot
HasClauseFor(url, slot) ==
    LET cs == Clauses(url) IN \E j \in 1..Len(cs) : SlotOfFilter[cs[j].name] = slot

\* the slots the query carries a filter clause for
FilteredSlots(url) ==
    LET cs == Clauses(url) IN { SlotOfFilter[cs[j].name] : j \in 1..Len(cs) }

ValueSlots == {"condition", "minPrice", "maxPrice"}

\* the no-filter word of each build, and its spellings
SentinelOf(v) == IF v = "legacy" THEN S_all ELSE S_none

SpellingsOf(v) ==
    IF v = "legacy"
    THEN { <<"a", "l", "l">>, <<"A", "l", "l">>, <<"A", "L", "L">> }
    ELSE { <<"n", "o", "n", "e">>, <<"N", "o", "n", "e">>, <<"N", "O", "N", "E">> }

\* a slot bag ready for dispatch, with one slot set to the word w
OnlySlot(slot, w) ==
    [k \in ValueSlots \cup {"searchByKeyword"} |-> IF k = slot THEN w ELSE <<"7">>]

C13_Sent ==
    (Processed /\ calls # <<>>) =>
       LET s == ReadAtDispatch(before, req.body.message)
           filtered == FilteredSlots(calls[1].url)
       IN  \A slot \in ValueSlots :
              EqualFold(s[slot], SentinelOf(variant)) <=> slot \notin filtered

\* the query of the build for each spelling of its sentinel in each slot,
\* looked at once, before the first request
C13_Spellings ==
    req.op = "none" =>
       \A slot \in ValueSlots : \A w \in SpellingsOf(variant) :
          LET url == QueryOf(variant, OnlySlot(slot, w)) IN
          /\ ~HasClauseFor(url, slot)
          /\ \A other \in ValueSlots \ {slot} : HasClauseFor(url, other)

FreeForm(m) == ~EqualFold(m, S_new) /\ ~EqualFold(m, S_used)

\* the last turn found the condition question asked and not yet answered
AnsweredCondition ==
    /\ Processed
    /\ Has(before, "conditionBool") /\ before["conditionBool"]
    /\ ~Has(before, "condition")

\* C14: in src/main.go a condition answer that is neither new nor used is
\* stored as the condition and the minPrice question follows, and the query
\* sent at dispatch has no Condition filter for such a value.
C14_FreeFormMeansNoFilter ==
    variant = "main" =>
       /\ (AnsweredCondition /\ FreeForm(req.body.message)) =>
             /\ Has(sessions[req.uuid], "condition")
             /\ sessions[req.uuid]["condition"] = req.body.message
             /\ Len(resp.writes) = 1
             /\ MessageOf(resp.writes[1]) = QuestionMinPrice
       /\ (Processed /\ calls # <<>> /\ FreeForm(before["condition"])) =>
             ~HasClauseFor(calls[1].url, "condition")

(* ------------------------------ C15 ----------------------------------- *)

\* the identifiers the welcome handler has handed out
Issued == DOMAIN hist

\* the last request was a chat request without an identifier, or with one that
\* no welcome had handed out
Unidentified == req.op = "chat" /\ req.uuid \notin Issued

\* C15: a chat request whose identifier is empty or not in the store is
\* answered 401 and nothing else: its body is not read, the processor is not
\* run, no search is sent and no session is stored under that identifier; the
\* store holds only identifiers handed out by a welcome.
C15_UnknownIdentifierRefused ==
    /\ DOMAIN sessions \subseteq Issued
    /\ Unidentified =>
          /\ resp.status = 401
          /\ Len(resp.writes) = 1 /\ resp.writes[1].type = "text"
          /\ req.body.kind = "unread"
          /\ calls = <<>>
          /\ req.uuid \notin DOMAIN sessions

\* a forged identifier is refused while a session is in progress
C15_Witness ==
    /\ Unidentified
    /\ req.uuid = <<"forged">>
    /\ resp.status = 401
    /\ \E u \in DOMAIN sessions : Has(sessions[u], "searchByKeyword")

(* ------------------------------ C16 ----------------------------------- *)

\* the request handled by the step is a chat request that handleChat turns
\* down as a client error: no or an unknown identifier (the body is not
\* read), a body that does not decode, a body without the message field
ClientError(r) == r.op = "chat" /\ r.body.kind \in {"unread", "undecodable", "nomessage"}

C16_Step ==
    ClientError(req') =>
       /\ resp'.status \in 400..499
       /\ ~resp'.aborted
       /\ sessions' = sessions
       /\ calls' = <<>>

\* C16: a chat request turned down as a client error (missing or unknown
\* identifier, undecodable body, absent message field) is answered with a 4xx
\* status and leaves every session of the store, the addressed one included,
\* as it was.
C16_ClientErrorChangesNothing == [][C16_Step]_vars

\* a body without message, sent to a session that waits for the minPrice answer
C16_Witness ==
    /\ req.op = "chat"
    /\ req.body.kind = "nomessage"
    /\ resp.status = 400
    /\ req.uuid \in DOMAIN sessions
    /\ Has(sessions[req.uuid], "minPriceBool")
    /\ sessions[req.uuid] = before

(* ------------------------------ C17 ----------------------------------- *)

\* each value slot with its marker and its question
SlotTable ==
    { [value |-> "condition", marker |-> "conditionBool", question |-> QuestionCondition],
      [value |-> "minPrice",  marker |-> "minPriceBool",  question |-> QuestionMinPrice],
      [value |-> "maxPrice",  marker |-> "maxPriceBool",  question |-> QuestionMaxPrice] }

\* the marker is present and true in the slot bag
Marked(bag, marker) == Has(bag, marker) /\ bag[marker] = TRUE

\* how many times x occurs in the sequence a
Occurrences(a, x) == Cardinality({ i \in 1..Len(a) : a[i] = x })

\* the last turn wrote the question
AsksNow(question) ==
    \E i \in 1..Len(resp.writes) : MessageOf(resp.writes[i]) = question

\* a value is never there without its marker being true
C17_ValueNeedsMarker ==
    \A u \in DOMAIN sessions : \A t \in SlotTable :
       Has(sessions[u], t.value) => Marked(sessions[u], t.marker)

\* what the last turn did to the markers and values of its session
C17_Turn ==
    Processed =>
       LET after == sessions[req.uuid]
           asked == hist[req.uuid].asked
       IN  \A t \in SlotTable :
              \* the marker becomes true on the turn that asks for the first time
              /\ (~Marked(before, t.marker) /\ Marked(after, t.marker)) =>
                    /\ AsksNow(t.question)
                    /\ Occurrences(asked, t.question) = 1
                    /\ ~Has(after, t.value)
              /\ (AsksNow(t.question) /\ Occurrences(asked, t.question) = 1) =>
                    /\ ~Marked(before, t.marker)
                    /\ Marked(after, t.marker)
              \* once true it stays true until the slot bag is cleared
              /\ Marked(before, t.marker) =>
                    (Marked(after, t.marker) \/ DOMAIN after = {})
              \* the value is written on a later turn than the marker
              /\ (~Has(before, t.value) /\ Has(after, t.value)) =>
                    Marked(before, t.marker)

\* C17: within a cycle each marker becomes true once, on the turn that emits
\* its question for the first time, and stays true until the slot bag is
\* cleared; the slot's value is written only by a later turn, so a value is
\* never present while its marker is absent or false.
C17_MarkerBeforeValue == C17_ValueNeedsMarker /\ C17_Turn

\* the turn that stores the condition and asks for the minimum price
C17_Witness ==
    /\ Processed
    /\ ~Has(before, "condition") /\ Marked(before, "conditionBool")
    /\ Has(sessions[req.uuid], "condition")
    /\ ~Has(before, "minPriceBool")
    /\ Marked(sessions[req.uuid], "minPriceBool")
    /\ ~Has(sessions[req.uuid], "minPrice")
    /\ AsksNow(QuestionMinPrice)

(* ------------------------------ C18 ----------------------------------- *)

\* C18: a turn that finds searchByKeyword set leaves it at the same value,
\* whatever the utterance answers, unless the turn dispatched the search and
\* its terminal outcome cleared the slot bag.
C18_KeywordIsKept ==
    (Processed /\ Has(before, "searchByKeyword")) =>
       LET after == sessions[req.uuid] IN
       \/ /\ Has(after, "searchByKeyword")
          /\ after["searchByKeyword"] = before["searchByKeyword"]
       \/ /\ DOMAIN after = {}
          /\ calls # <<>>
          /\ TerminalOutcome

\* the answer to the minPrice question is stored and the keyword is untouched
C18_Witness ==
    /\ Processed
    /\ Has(before, "searchByKeyword")
    /\ before["searchByKeyword"] = <<"G", " ", "T">>
    /\ req.body.message = <<"N", "O", "N", "E">>
    /\ ~Has(before, "minPrice")
    /\ Has(sessions[req.uuid], "minPrice")
    /\ sessions[req.uuid]["minPrice"] = <<"N", "O", "N", "E">>
    /\ sessions[req.uuid]["searchByKeyword"] = <<"G", " ", "T">>

(* ------------------------------ C19 ----------------------------------- *)

\* the identifier a welcome reply carries
IssuedBy(r) == r.writes[1].body.uuid

C19_Step ==
    req'.op = "welcome" =>
       /\ IssuedBy(resp') \notin DOMAIN sessions
       /\ \A u \in DOMAIN sessions : sessions'[u] = sessions[u]

\* C19: every welcome returns an identifier that was not in the store before,
\* and so leaves the slot bag of every session as it was, also when two
\* welcomes are served within one clock second.
C19_WelcomeIsFresh == [][C19_Step]_vars

(* ------------------------------ C20 ----------------------------------- *)

\* the last turn sent the search and got no payload: a timeout, a transport
\* error, a body that cannot be read or parsed
DownstreamFailed ==
    /\ Processed
    /\ calls # <<>>
    /\ calls[1].answer.kind = "error"

\* C20: when the downstream call fails the server process is gone: the turn
\* wrote no response, the slot bag was not cleared (it holds the four slots
\* the query was built from), and no request is served afterwards.
C20_DownstreamFailureIsFatal ==
    /\ DownstreamFailed =>
          /\ ~alive
          /\ resp.writes = <<>> /\ resp.aborted
          /\ \A k \in {"searchByKeyword", "condition", "minPrice", "maxPrice"} :
                /\ Has(sessions[req.uuid], k)
                /\ sessions[req.uuid][k] = ReadAtDispatch(before, req.body.message)[k]
    /\ ~alive => ~ENABLED Next

C20_Witness ==
    /\ DownstreamFailed
    /\ ~alive
    /\ resp.aborted
    /\ sessions[req.uuid]["searchByKeyword"] = <<"G", " ", "T">>
    /\ sessions[req.uuid]["maxPrice"] = req.body.message

(* ------------------------------ C21 ----------------------------------- *)

\* the reply has a session field
CarriesSession(w) == w.type = "json" /\ "session" \in DOMAIN w.body

\* the reply is one of the three terminal ones
IsTerminalReply(w) == IsErrorReport(w) \/ IsZeroResults(w) \/ IsResults(w)

\* C21: a reply that carries the session field is a slot question, and no
\* error report, zero-results message or results message carries it.
C21_SessionOnlyOnQuestions ==
    \A i \in 1..Len(resp.writes) :
       LET w == resp.writes[i] IN
       /\ CarriesSession(w) => (IsQuestion(w) /\ ~IsTerminalReply(w))
       /\ IsTerminalReply(w) => ~CarriesSession(w)

\* a zero-results reply at the end of a cycle whose questions carried the session
C21_Witness ==
    /\ TerminalOutcome
    /\ IsZeroResults(resp.writes[1])
    /\ ~CarriesSession(resp.writes[1])
    /\ hist[req.uuid].asked = AllQuestions

(* ------------------------------ C22 ----------------------------------- *)

FourSlots == {"searchByKeyword", "condition", "minPrice", "maxPrice"}

\* the value slots the last turn wrote: those it did not find and left stored,
\* and on a dispatching turn (which had all four when it built the query, and
\* may have cleared them since) those it did not find
WrittenByTurn ==
    IF calls # <<>> THEN FourSlots \ DOMAIN before
    ELSE { k \in FourSlots : ~Has(before, k) /\ Has(sessions[req.uuid], k) }

\* C22: a turn writes at most one of searchByKeyword, condition, minPrice and
\* maxPrice: the utterance bound as the keyword or taken as the answer to one
\* question is not stored in a later slot by the same turn; the first turn of
\* a cycle writes the keyword and nothing else.
C22_OneSlotPerTurn ==
    Processed =>
       /\ Cardinality(WrittenByTurn) <= 1
       /\ (calls = <<>> /\ ~Has(before, "searchByKeyword")) =>
             WrittenByTurn = {"searchByKeyword"}

\* the utterance is stored as minPrice and the maxPrice question is asked
C22_Witness ==
    /\ Processed
    /\ WrittenByTurn = {"minPrice"}
    /\ sessions[req.uuid]["minPrice"] = req.body.message
    /\ ~Has(sessions[req.uuid], "maxPrice")
    /\ AsksNow(QuestionMaxPrice)

(* ------------------------------ C23 ----------------------------------- *)

\* C23: in the rejecting build a condition answer that is not new, used or
\* none leaves the slot bag exactly as the turn found it (condition unset,
\* conditionBool true, nothing else touched) and is answered with the
\* condition question alone; the condition is stored and the minPrice
\* question asked only by a turn whose utterance is new, used or none.
C23_RejectedAnswerReasked ==
    (variant = "rejecting" /\ AnsweredCondition) =>
       LET after == sessions[req.uuid]
           m     == req.body.message
       IN  /\ ~ValidCondition(m) =>
                /\ after = before
                /\ ~Has(after, "condition") /\ Marked(after, "conditionBool")
                /\ resp = Respond(<<writeJSON([message |-> QuestionCondition])>>)
                /\ calls = <<>>
           /\ (Has(after, "condition") \/ AsksNow(QuestionMinPrice)) => ValidCondition(m)
           /\ ValidCondition(m) =>
                /\ Has(after, "condition")
                /\ AsksNow(QuestionMinPrice)

\* two answers in a row were rejected
C23_Witness ==
    /\ variant = "rejecting"
    /\ AnsweredCondition
    /\ ~ValidCondition(req.body.message)
    /\ sessions[req.uuid] = before
    /\ Occurrences(hist[req.uuid].asked, QuestionCondition) = 3

(* ------------------------------ interleaved requests ------------------ *)

(***************************************************************************)
(* net/http runs every request in a goroutine of its own and the session   *)
(* is a Go map without a lock, so two chat requests with the same          *)
(* identifier run sampleProcessor of src/main.go on the same map, one      *)
(* statement group at a time.  The server has served one welcome.          *)
(***************************************************************************)

\* the identifier both requests carry
RaceId == Uuid(0)

RaceUtterances == { <<"n", "e", "w">>, <<"N", "O", "N", "E">> }

\* what the GET yields here: results, no results, or no payload at all
RaceDownstream ==
    { [kind |-> "json", js |-> SuccessPayload(<<"2">>, <<Item(1, TRUE), Item(2, TRUE)>>)],
      [kind |-> "json", js |-> SuccessPayload(<<"0">>, <<>>)],
      [kind |-> "error", js |-> NoPayload] }

\* the three slot steps in the order sampleProcessor calls them
RaceSlots ==
    << [value |-> "condition", marker |-> "conditionBool", question |-> QuestionCondition],
       [value |-> "minPrice",  marker |-> "minPriceBool",  question |-> QuestionMinPrice],
       [value |-> "maxPrice",  marker |-> "maxPriceBool",  question |-> QuestionMaxPrice] >>

\* the shared map
Bag == sessions[RaceId]

\* the request is inside sampleProcessor
InFlight(p) == flight[p].pc \notin {"idle", "panic"}

Other(p) == CHOOSE q \in Procs : q # p

\* the cycle in progress: the questions emitted and the searches sent since
\* the keyword was bound, whether two requests were in the handler together
\* since then, and the markers that a request read as false while the other
\* was about to set them
RaceCycle(cycle, turns, asked, searches, overlap, raced) ==
    [cycle |-> cycle, turns |-> turns, asked |-> asked, searches |-> searches,
     overlap |-> overlap, raced |-> raced]

Cycle == hist[RaceId]

\* where a request goes after slot step number slot returned 0
AfterSlot(f, slot) ==
    IF slot < 3 THEN [f EXCEPT !.pc = "check", !.slot = slot + 1]
    ELSE [f EXCEPT !.pc = "read", !.slot = 0]

\* handleChat up to the call of the processor, for a request with the
\* identifier and a message
RaceStart(p, m) ==
    /\ alive
    /\ ~InFlight(p)
    /\ served < MaxTurns
    /\ flight' = [flight EXCEPT ![p] = Flight("bind", 0, m, <<>>, NoPayload)]
    /\ served' = served + 1
    /\ hist' = [hist EXCEPT ![RaceId].turns = @ + 1,
                            ![RaceId].overlap = @ \/ InFlight(Other(p))]
    /\ UNCHANGED <<variant, alive, now, sessions, req, resp, calls, before>>

\* sampleProcessor, lines 148-152
RaceBind(p) ==
    /\ alive
    /\ flight[p].pc = "bind"
    /\ sessions' = Store(sessions, RaceId, BindKeyword(Bag, flight[p].message))
    /\ hist' = IF Has(Bag, "searchByKeyword") THEN hist
               ELSE [hist EXCEPT ![RaceId] =
                        RaceCycle(Cycle.cycle + 1, 1, <<>>, 0, InFlight(Other(p)), {})]
    /\ flight' = [flight EXCEPT ![p].pc = "check", ![p].slot = 1]
    /\ UNCHANGED <<variant, alive, now, served, req, resp, calls, before>>

\* the head of a slot step: the marker is initialised, the value looked up
\* and the marker read
RaceCheck(p) ==
    /\ alive
    /\ flight[p].pc = "check"
    /\ LET t  == RaceSlots[flight[p].slot]
           b1 == InitMarker(Bag, t.marker)
           o  == flight[Other(p)]
       IN  /\ sessions' = Store(sessions, RaceId, b1)
           /\ IF Has(b1, t.value)
              THEN /\ flight' = [flight EXCEPT ![p] = AfterSlot(@, @.slot)]
                   /\ hist' = hist
              ELSE IF ~b1[t.marker]
              THEN /\ flight' = [flight EXCEPT ![p].pc = "ask"]
                   /\ hist' = IF o.pc = "ask" /\ o.slot = flight[p].slot
                              THEN [hist EXCEPT ![RaceId].raced = @ \cup {t.marker}]
                              ELSE hist
              ELSE /\ flight' = [flight EXCEPT ![p].pc = "store"]
                   /\ hist' = hist
    /\ UNCHANGED <<variant, alive, now, served, req, resp, calls, before>>

\* mutant: the question is written and the marker is left as it is
RaceAskNoFlip(p) ==
    /\ alive
    /\ flight[p].pc = "ask"
    /\ LET t == RaceSlots[flight[p].slot]
       IN  hist' = [hist EXCEPT ![RaceId].asked = Append(@, t.question)]
    /\ flight' = [flight EXCEPT ![p] = IdleFlight]
    /\ UNCHANGED <<variant, alive, now, sessions, served, req, resp, calls, before>>

\* the question branch of a slot step: the reply is written, the marker set
\* and the request returns
RaceAsk(p) ==
    /\ alive
    /\ flight[p].pc = "ask"
    /\ LET t == RaceSlots[flight[p].slot]
       IN  /\ sessions' = Store(sessions, RaceId, Put(Bag, t.marker, TRUE))
           /\ hist' = [hist EXCEPT ![RaceId].asked = Append(@, t.question)]
    /\ flight' = [flight EXCEPT ![p] = IdleFlight]
    /\ UNCHANGED <<variant, alive, now, served, req, resp, calls, before>>

\* the answer branch of a slot step: the utterance is stored
RaceStore(p) ==
    /\ alive
    /\ flight[p].pc = "store"
    /\ LET t == RaceSlots[flight[p].slot]
           m == flight[p].message
       IN  sessions' = Store(sessions, RaceId,
                             Put(Bag, t.value,
                                 IF t.value = "condition" THEN Canonical(m) ELSE m))
    /\ flight' = [flight EXCEPT ![p] = AfterSlot(@, @.slot)]
    /\ UNCHANGED <<variant, alive, now, served, req, resp, calls, hist, before>>

\* sampleProcessor, lines 168-194: the four slots are read with a type
\* assertion, which panics on a key that is not there, and the URL is built
RaceRead(p) ==
    /\ alive
    /\ flight[p].pc = "read"
    /\ flight' = IF SlotsAreStrings(Bag)
                 THEN [flight EXCEPT ![p].pc = "get", ![p].url = BuildURL(Bag)]
                 ELSE [flight EXCEPT ![p] = [IdleFlight EXCEPT !.pc = "panic"]]
    /\ UNCHANGED <<variant, alive, now, sessions, served, req, resp, calls, hist, before>>

\* sampleProcessor, lines 196-218: the GET; without a payload log.Fatal
RaceGet(p) ==
    /\ alive
    /\ flight[p].pc = "get"
    /\ \E down \in RaceDownstream :
          /\ calls' = <<Call(flight[p].url, down)>>
          /\ alive' = (down.kind # "error")
          /\ flight' = [flight EXCEPT ![p].pc = "format", ![p].js = down.js]
    /\ hist' = [hist EXCEPT ![RaceId].searches = @ + 1]
    /\ UNCHANGED <<variant, now, sessions, served, req, resp, before>>

\* sampleProcessor, lines 220-228: the three formatter steps on the map as
\* it is now
RaceFormat(p) ==
    /\ alive
    /\ flight[p].pc = "format"
    /\ LET f == Format(flight[p].js, Bag)
       IN  /\ sessions' = Store(sessions, RaceId, f.session)
           /\ flight' = [flight EXCEPT ![p] =
                            IF f.end = "panic" THEN [IdleFlight EXCEPT !.pc = "panic"]
                            ELSE IdleFlight]
    /\ UNCHANGED <<variant, alive, now, served, req, resp, calls, hist, before>>

\* the next statement group of the request touches the map, and writes it
TouchesMap(p) == InFlight(p) /\ flight[p].pc # "get"

WritesMap(p) ==
    LET f == flight[p] IN
    \/ f.pc \in {"ask", "store", "format"}
    \/ f.pc = "bind" /\ ~Has(Bag, "searchByKeyword")
    \/ f.pc = "check" /\ ~Has(Bag, RaceSlots[f.slot].marker)

\* two goroutines in the map at once, one of them writing: the Go runtime may
\* notice and end the process ("concurrent map writes", "concurrent map read
\* and map write"), or not notice, and then the steps above go on
RaceCrash ==
    /\ alive
    /\ \A p \in Procs : TouchesMap(p)
    /\ \E p \in Procs : WritesMap(p)
    /\ alive' = FALSE
    /\ UNCHANGED <<variant, now, sessions, served, req, resp, calls, hist, before, flight>>

InitRace ==
    /\ variant = "main"
    /\ alive = TRUE
    /\ now = 0
    /\ sessions = Store([u \in {} |-> EmptySession], RaceId, EmptySession)
    /\ served = 0
    /\ req = Request("welcome", <<>>, Body("unread", <<>>))
    /\ resp = Respond(<<writeJSON([message |-> WelcomeMessage, uuid |-> RaceId])>>)
    /\ calls = <<>>
    /\ hist = Store([u \in {} |-> NoCycle], RaceId, RaceCycle(0, 0, <<>>, 0, FALSE, {}))
    /\ before = EmptySession
    /\ flight = NoFlights

RaceNext ==
    \/ \E p \in Procs : \E m \in RaceUtterances : RaceStart(p, m)
    \/ \E p \in Procs : RaceBind(p)
    \/ \E p \in Procs : RaceCheck(p)
    \/ \E p \in Procs : RaceAsk(p)
    \/ \E p \in Procs : RaceStore(p)
    \/ \E p \in Procs : RaceRead(p)
    \/ \E p \in Procs : RaceGet(p)
    \/ \E p \in Procs : RaceFormat(p)
    \/ RaceCrash

SpecRace == InitRace /\ [][RaceNext]_vars

(* ------------------------------ C24 ----------------------------------- *)

\* the slot question was emitted twice in the cycle in progress
AskedTwice(t) == Occurrences(Cycle.asked, t.question) >= 2

\* two searches were sent in the cycle in progress
SearchedTwice == Cycle.searches >= 2

RaceSlotSet == { RaceSlots[i] : i \in 1..3 }

C24_BothDispatch ==
    /\ SearchedTwice
    /\ Cycle.asked = AllQuestions

(* ------------------------------ C25 ----------------------------------- *)

\* C25: under any interleaving of chat requests for one identifier, a
\* request that has passed the three slot checks and is about to read the
\* slots for the search finds searchByKeyword, condition, minPrice and
\* maxPrice in the map as strings.
C25_ReadsFindSlots ==
    \A p \in Procs : flight[p].pc = "read" => SlotsAreStrings(Bag)

(* ------------------------------ C26 ----------------------------------- *)

\* the keys of a slot bag follow the order of the dialogue
InDialogueOrder(bag) ==
    /\ DOMAIN bag # {} => Has(bag, "searchByKeyword")
    /\ Has(bag, "minPrice") => Has(bag, "condition")
    /\ Has(bag, "maxPrice") => Has(bag, "minPrice")
    /\ Marked(bag, "minPriceBool") => Has(bag, "condition")
    /\ Marked(bag, "maxPriceBool") => Has(bag, "minPrice")

\* C26: with requests handled one at a time, in every stored session any
\* marker or value present implies searchByKeyword present, minPrice
\* implies condition, maxPrice implies minPrice, minPriceBool is true only
\* with condition present and maxPriceBool is true only with minPrice
\* present.
C26_KeysFollowDialogue ==
    \A u \in DOMAIN sessions : InDialogueOrder(sessions[u])

\* the min-price question has been asked and not yet answered
C26_Witness ==
    \E u \in DOMAIN sessions :
        /\ Marked(sessions[u], "minPriceBool")
        /\ Has(sessions[u], "condition")
        /\ ~Has(sessions[u], "minPrice")
        /\ Processed

(* ------------------------------ C27 ----------------------------------- *)

\* the utterances tried on a build
UtterancesOf(v) == IF v = "legacy" THEN UtterancesLegacy ELSE Utterances

\* the turn sent a search and left the session empty
ClearsSession(r) ==
    r.calls # <<>> /\ r.end = "return" /\ r.session = EmptySession

\* some sequence of at most n utterances, handled one after the other, takes
\* the slot bag to a search and an empty session
RECURSIVE CanClear(_, _, _)
CanClear(v, bag, n) ==
    /\ n > 0
    /\ \E m \in UtterancesOf(v) :
           \E r \in sampleProcessor(v, bag, m) :
               \/ ClearsSession(r)
               \/ r.end = "return" /\ r.session # bag /\ CanClear(v, r.session, n - 1)

\* every utterance is answered alike, sends no search and leaves the slot bag
\* as it is
Trapped(v, bag) ==
    /\ \A m1, m2 \in UtterancesOf(v) :
           sampleProcessor(v, bag, m1) = sampleProcessor(v, bag, m2)
    /\ \A m \in UtterancesOf(v) :
           \A r \in sampleProcessor(v, bag, m) :
               r.session = bag /\ r.calls = <<>> /\ r.end = "return"

\* C27: while the process runs, from every stored session some sequence of
\* at most MaxTurns utterances leads to a search and an empty session, and
\* no stored session is one in which every utterance gets the same reply
\* and changes nothing.
C27_EverySessionCanFinish ==
    alive => \A u \in DOMAIN sessions :
                 /\ CanClear(variant, sessions[u], MaxTurns)
                 /\ ~Trapped(variant, sessions[u])

(* ------------------------------ C28 ----------------------------------- *)

\* the last request was a chat request for a stored session whose message
\* field is there and is not a string
NonStringMessage ==
    /\ req.op = "chat"
    /\ req.body.kind = "nonstring"
    /\ req.uuid \in DOMAIN sessions

\* C28: a chat request for an existing session whose message is not a string
\* is answered with a 4xx status, the handler is not aborted, no search is
\* sent and the session is as the request found it.
C28_NonStringRefused ==
    NonStringMessage =>
        /\ resp.status \in 400..499
        /\ ~resp.aborted
        /\ calls = <<>>
        /\ sessions[req.uuid] = before

====
